---------------------------- MODULE Spec2Model ----------------------------
(***************************************************************************)
(* A model of dro_surgeon.py: the DRO v2 channel classifier, the two       *)
(* stream filters (remove_channel, isolate_channel), the dumper (dump_dro) *)
(* and the pitch-shift calculator (calc_shift).                            *)
(*                                                                         *)
(* A file is a sequence of bytes.  Python indexes from 0, TLA+ sequences   *)
(* from 1: At and Slice translate.  One run of the program performs one    *)
(* command; Init draws the command line and the file, the actions are the  *)
(* steps of the command's function.                                        *)
(***************************************************************************)
EXTENDS Integers, Sequences, FiniteSets

VARIABLES
    op,                 \* sys.argv[1]; "classify" is a call of get_channel_from_reg alone
    pc,                 \* position in the command's function
    data,               \* the bytes read from the input file
    target_channel,     \* int(sys.argv[3])
    short_delay_code,   \* data[23]
    long_delay_code,    \* data[24]
    codemap,            \* data[26 : 26 + codemap_len]
    i,                  \* the cursor into data
    out_data,           \* the output buffer
    dropped_commands,   \* the counter of dropped tokens
    written,            \* whether the output file was written
    out_file,           \* the bytes written to the output file
    reported,           \* the dropped count printed, -1 before the print
    result,             \* "running", "ok", an error message or an uncaught exception
    time_accum,         \* dump_dro: the accumulated time
    rows,               \* dump_dro: the rows printed, <<offset, time, bank, reg, val, desc>>
    hex_a0, hex_b0, semitones,      \* calc_shift: the arguments
    key_on, new_f_num, new_block,   \* calc_shift: the locals
    new_f_low, new_b0_val,          \* calc_shift: the repacked bytes
    bank, reg, ch                   \* get_channel_from_reg: arguments and result

fileVars == <<data, target_channel, short_delay_code, long_delay_code, codemap, i,
              out_data, dropped_commands, written, out_file, reported>>
dumpVars == <<time_accum, rows>>
calcVars == <<hex_a0, hex_b0, semitones, key_on, new_f_num, new_block,
              new_f_low, new_b0_val>>
clsVars == <<bank, reg, ch>>
vars == <<op, pc, result, fileVars, dumpVars, calcVars, clsVars>>

---------------------------------------------------------------------------
(* Bounds of the model.                                                    *)

\* The longest command stream drawn, in whole tokens.
MaxTokens == 2

---------------------------------------------------------------------------
(* Bytes, Python indexing and slicing.                                     *)

Byte == 0..255

\* data[k]; the caller checks k < len(data) (Python raises IndexError otherwise).
At(d, k) == d[k + 1]

Min(a, b) == IF a < b THEN a ELSE b

\* data[a:b] for 0 <= a <= b: Python clamps both ends to len(data).
Slice(d, a, b) == SubSeq(d, Min(a, Len(d)) + 1, Min(b, Len(d)))

\* b'DBRAWOPL'
Magic == <<68, 66, 82, 65, 87, 79, 80, 76>>

\* struct.unpack('<H', two bytes)
UnpackH(s) == s[1] + 256 * s[2]

\* codemap_start = 26
codemap_start == 26

\* the register of the rhythm control
RhythmReg == 189

\* "not channel-specific": the -1 get_channel_from_reg returns
Global == -1

---------------------------------------------------------------------------
(* get_channel_from_reg                                                    *)

\* Mutant: the second bank starts one channel early.
base_ch_off_by_one(b) == IF b = 0 THEN 0 ELSE 8

base_ch(b) == IF b = 0 THEN 0 ELSE 9

\* op_ch_map, a Python list indexed from 0
op_ch_map == <<0, 1, 2, 0, 1, 2, -1, -1, 3, 4, 5, 3, 4, 5, -1, -1, 6, 7, 8, 6, 7, 8>>

InChannelRange(r) ==
    \/ (160 <= r /\ r <= 168)
    \/ (176 <= r /\ r <= 184)
    \/ (192 <= r /\ r <= 200)

InOperatorRange(r) ==
    \/ (32 <= r /\ r <= 53)
    \/ (64 <= r /\ r <= 85)
    \/ (96 <= r /\ r <= 117)
    \/ (128 <= r /\ r <= 149)
    \/ (224 <= r /\ r <= 245)

get_channel_from_reg(b, r) ==
    IF InChannelRange(r)
    THEN base_ch(b) + (r % 16)
    ELSE IF InOperatorRange(r)
         THEN LET offset == r % 32
              IN IF offset > 21
                 THEN -1
                 ELSE IF offset < Len(op_ch_map) /\ At(op_ch_map, offset) # -1
                      THEN base_ch(b) + At(op_ch_map, offset)
                      ELSE -1
         ELSE -1

---------------------------------------------------------------------------
(* The token decoding both filters and the dumper share.                   *)

\* Mutant: the short-delay opcode is not recognised.
IsDelayCode_long_only(code, sd, ld) == code = ld

IsDelayCode(code, sd, ld) == code = sd \/ code = ld

\* Mutant: the bank bit is taken one bit too high.
code_bank_wrong_shift(code) == (code \div 256) % 2

code_bank(code) == (code \div 128) % 2

code_idx(code) == code % 128

IdxOutOfRange(idx, cm) == idx >= Len(cm)

\* remove_channel: the token is dropped
remove_drops(chn, target) == chn = target

\* Mutant: the Global writes are not kept.
isolate_keeps_no_global(r, chn, target) == r = RhythmReg \/ chn = target

\* isolate_channel: the token is kept
isolate_keeps(r, chn, target) == r = RhythmReg \/ chn = target \/ chn = -1

---------------------------------------------------------------------------
(* The input files drawn.                                                  *)

\* The 26-byte header: magic, version major (little-endian), version minor,
\* the two length fields, hardware, format, compression, the two delay
\* opcodes and the codemap length.
Header(m0, verLo, verHi, sd, ld, cmlen) ==
    <<m0, 66, 82, 65, 87, 79, 80, 76, verLo, verHi, 0, 0, 0, 0, 0, 0, 0, 0, 0, 0,
      0, 0, 0, sd, ld, cmlen>>

OpcodeChoices == {<<0, 1>>, <<122, 123>>, <<122, 122>>}

CodemapChoices == {<<>>, <<176>>, <<176, 189>>, <<1, 161>>, <<189, 35, 176>>}

TokenChoices == {<<0, 48>>, <<0, 9>>, <<1, 2>>, <<128, 48>>, <<122, 9>>, <<5, 17>>}

TrailChoices == {<<>>, <<0>>, <<128>>}

TargetChoices == {0, 9, -1}

RECURSIVE TokenSeqs(_)
TokenSeqs(n) ==
    IF n = 0 THEN {<<>>}
    ELSE LET shorter == TokenSeqs(n - 1)
         IN shorter \cup {s \o t : s \in {x \in shorter : Len(x) = 2 * (n - 1)},
                                  t \in TokenChoices}

\* Whole-token streams, each with and without one trailing byte.
Streams == {s \o t : s \in TokenSeqs(MaxTokens), t \in TrailChoices}

GoodFiles ==
    {Header(68, 2, 0, o[1], o[2], Len(cm)) \o cm \o s :
        o \in OpcodeChoices, cm \in CodemapChoices, s \in Streams}

\* Files cut short: inside the magic, inside the version, inside the header,
\* inside the codemap, and right at the codemap's end.
CutChoices == {5, 9, 10, 24, 25, 26, 27, 28, 29}

CutFiles ==
    {Slice(Header(68, 2, 0, 122, 123, 3) \o <<189, 35, 176>> \o <<0, 48>>, 0, n) :
        n \in CutChoices}

BadFiles ==
    {Header(67, 2, 0, 122, 123, 1) \o <<176>> \o <<0, 48>>,
     Header(68, 1, 0, 122, 123, 1) \o <<176>> \o <<0, 48>>,
     Header(68, 2, 1, 122, 123, 1) \o <<176>> \o <<0, 48>>}

InputFiles == GoodFiles \cup CutFiles \cup BadFiles

---------------------------------------------------------------------------
(* Initial states.                                                         *)

InitFile ==
    /\ short_delay_code = 0
    /\ long_delay_code = 0
    /\ codemap = <<>>
    /\ i = 0
    /\ out_data = <<>>
    /\ dropped_commands = 0
    /\ written = FALSE
    /\ out_file = <<>>
    /\ reported = -1

InitDump ==
    /\ time_accum = 0
    /\ rows = <<>>

InitCalcLocals ==
    /\ key_on = 0
    /\ new_f_num = 0
    /\ new_block = 0
    /\ new_f_low = 0
    /\ new_b0_val = 0

NoCalc ==
    /\ hex_a0 = 0
    /\ hex_b0 = 0
    /\ semitones = 0
    /\ InitCalcLocals

NoClassify ==
    /\ bank = 0
    /\ reg = 0
    /\ ch = -2

\* remove <input> <channel> <output>, isolate <input> <channel> <output>
Init ==
    /\ op \in {"remove", "isolate"}
    /\ pc = "start"
    /\ result = "running"
    /\ data \in InputFiles
    /\ target_channel \in TargetChoices
    /\ InitFile
    /\ InitDump
    /\ NoCalc
    /\ NoClassify

---------------------------------------------------------------------------
(* remove_channel and isolate_channel                                      *)

\* The outcome of the header checks: "" when they pass.  A file too short
\* for the two version bytes makes struct.unpack raise; one too short for
\* data[23], data[24] or data[25] raises IndexError.
HeaderFault(d) ==
    IF Slice(d, 0, 8) # Magic THEN "Error: Not a valid DRO file"
    ELSE IF Len(Slice(d, 8, 10)) < 2 THEN "struct.error"
    ELSE IF UnpackH(Slice(d, 8, 10)) # 2 THEN "Error: Only DRO v2.0 is supported"
    ELSE IF Len(d) <= 25 THEN "IndexError"
    ELSE ""

stream_start(d) == codemap_start + At(d, 25)

\* Mutant: the header is copied without the codemap.
header_copy_no_codemap(d) == Slice(d, 0, codemap_start)

\* out_data.extend(data[:stream_start])
header_copy(d) == Slice(d, 0, stream_start(d))

\* Lines 46-74 of remove_channel, 119-147 of isolate_channel.
FilterOpen ==
    /\ pc = "start"
    /\ IF HeaderFault(data) # ""
       THEN /\ result' = HeaderFault(data)
            /\ pc' = "done"
            /\ UNCHANGED <<short_delay_code, long_delay_code, codemap, i, out_data>>
       ELSE /\ short_delay_code' = At(data, 23)
            /\ long_delay_code' = At(data, 24)
            /\ codemap' = Slice(data, codemap_start, stream_start(data))
            /\ out_data' = header_copy(data)
            /\ i' = stream_start(data)
            /\ pc' = "loop"
            /\ UNCHANGED result
    /\ UNCHANGED <<op, data, target_channel, dropped_commands, written, out_file, reported>>
    /\ UNCHANGED <<dumpVars, calcVars, clsVars>>

remove_channel_open ==
    /\ op = "remove"
    /\ FilterOpen

isolate_channel_open ==
    /\ op = "isolate"
    /\ FilterOpen

\* The token under the cursor.
cur_code == At(data, i)

cur_val == At(data, i + 1)

cur_reg == At(codemap, code_idx(cur_code))

cur_ch == get_channel_from_reg(code_bank(cur_code), cur_reg)

\* out_data.append(code); out_data.append(val)
KeepToken ==
    /\ out_data' = out_data \o <<cur_code, cur_val>>
    /\ UNCHANGED dropped_commands

\* dropped_commands += 1
DropToken ==
    /\ dropped_commands' = dropped_commands + 1
    /\ UNCHANGED out_data

\* val = data[i] with i = len(data): the second byte of the token is read
\* with no bounds check, and the IndexError ends the run.
ReadPastEnd ==
    /\ result' = "IndexError"
    /\ pc' = "done"
    /\ UNCHANGED <<i, out_data, dropped_commands>>

FilterStepFrame ==
    /\ UNCHANGED <<op, data, target_channel, short_delay_code, long_delay_code, codemap,
                   written, out_file, reported>>
    /\ UNCHANGED <<dumpVars, calcVars, clsVars>>

\* One turn of the while loop of remove_channel.
remove_channel_step ==
    /\ op = "remove"
    /\ pc = "loop"
    /\ i < Len(data)
    /\ IF i + 1 >= Len(data)
       THEN ReadPastEnd
       ELSE /\ i' = i + 2
            /\ UNCHANGED <<result, pc>>
            /\ IF IsDelayCode(cur_code, short_delay_code, long_delay_code)
               THEN KeepToken
               ELSE IF IdxOutOfRange(code_idx(cur_code), codemap)
               THEN KeepToken
               ELSE IF remove_drops(cur_ch, target_channel)
               THEN DropToken
               ELSE KeepToken
    /\ FilterStepFrame

\* One turn of the while loop of isolate_channel.
isolate_channel_step ==
    /\ op = "isolate"
    /\ pc = "loop"
    /\ i < Len(data)
    /\ IF i + 1 >= Len(data)
       THEN ReadPastEnd
       ELSE /\ i' = i + 2
            /\ UNCHANGED <<result, pc>>
            /\ IF IsDelayCode(cur_code, short_delay_code, long_delay_code)
               THEN KeepToken
               ELSE IF IdxOutOfRange(code_idx(cur_code), codemap)
               THEN KeepToken
               ELSE IF isolate_keeps(cur_reg, cur_ch, target_channel)
               THEN KeepToken
               ELSE DropToken
    /\ FilterStepFrame

\* The loop is over: the file is written and the count printed.
FilterWrite ==
    /\ pc = "loop"
    /\ i >= Len(data)
    /\ written' = TRUE
    /\ out_file' = out_data
    /\ reported' = dropped_commands
    /\ result' = "ok"
    /\ pc' = "done"
    /\ UNCHANGED <<op, data, target_channel, short_delay_code, long_delay_code, codemap,
                   i, out_data, dropped_commands>>
    /\ UNCHANGED <<dumpVars, calcVars, clsVars>>

remove_channel_write ==
    /\ op = "remove"
    /\ FilterWrite

isolate_channel_write ==
    /\ op = "isolate"
    /\ FilterWrite

Next ==
    \/ remove_channel_open
    \/ remove_channel_step
    \/ remove_channel_write
    \/ isolate_channel_open
    \/ isolate_channel_step
    \/ isolate_channel_write

Spec == Init /\ [][Next]_vars

---------------------------------------------------------------------------
(* dump_dro                                                                *)

\* dump <file>
InitDumpRun ==
    /\ op = "dump"
    /\ pc = "start"
    /\ result = "running"
    /\ data \in InputFiles
    /\ target_channel = 0
    /\ InitFile
    /\ InitDump
    /\ NoCalc
    /\ NoClassify

\* The outcome of dump_dro's header checks; it unpacks the minor version too.
DumpHeaderFault(d) ==
    IF Slice(d, 0, 8) # Magic THEN "Error: Not a valid DRO file (missing magic 'DBRAWOPL')"
    ELSE IF Len(Slice(d, 8, 10)) < 2 \/ Len(Slice(d, 10, 12)) < 2 THEN "struct.error"
    ELSE IF UnpackH(Slice(d, 8, 10)) # 2 THEN "Error: This script only supports DRO v2.0"
    ELSE IF Len(d) <= 25 THEN "IndexError"
    ELSE ""

\* delay = val + 1
short_delay(val) == val + 1

\* Mutant: the long delay forgets the + 1.
long_delay_no_increment(val) == val * 256

\* delay = (val + 1) * 256
long_delay(val) == (val + 1) * 256

\* The description of a resolved register; "" prints no row.
describe(r, val) ==
    IF 176 <= r /\ r <= 184
    THEN IF (val \div 32) % 2 = 1 THEN "KeyOn <--- NOTE START" ELSE "KeyOn/Block/F-Hi"
    ELSE IF 160 <= r /\ r <= 168 THEN "F-Low"
    ELSE IF 192 <= r /\ r <= 200 THEN "FB/CNT"
    ELSE IF 32 <= r /\ r <= 53 THEN "TVSKM"
    ELSE IF 64 <= r /\ r <= 85 THEN "Level"
    ELSE IF r = 189 THEN "Rhythm Control"
    ELSE ""

dump_dro_open ==
    /\ op = "dump"
    /\ pc = "start"
    /\ IF DumpHeaderFault(data) # ""
       THEN /\ result' = DumpHeaderFault(data)
            /\ pc' = "done"
            /\ UNCHANGED <<short_delay_code, long_delay_code, codemap, i>>
       ELSE /\ short_delay_code' = At(data, 23)
            /\ long_delay_code' = At(data, 24)
            /\ codemap' = Slice(data, codemap_start, stream_start(data))
            /\ i' = stream_start(data)
            /\ pc' = "loop"
            /\ UNCHANGED result
    /\ time_accum' = 0
    /\ UNCHANGED <<op, data, target_channel, out_data, dropped_commands, written,
                   out_file, reported, rows>>
    /\ UNCHANGED <<calcVars, clsVars>>

\* if i >= len(data): break, after the token's first byte was consumed
DumpBreak ==
    /\ i' = i + 1
    /\ pc' = "done"
    /\ result' = "ok"
    /\ UNCHANGED <<time_accum, rows>>

\* One turn of the while loop of dump_dro.
dump_dro_step ==
    /\ op = "dump"
    /\ pc = "loop"
    /\ i < Len(data)
    /\ IF i + 1 >= Len(data)
       THEN DumpBreak
       ELSE /\ i' = i + 2
            /\ UNCHANGED <<pc, result>>
            /\ IF cur_code = short_delay_code
               THEN /\ time_accum' = time_accum + short_delay(cur_val)
                    /\ UNCHANGED rows
               ELSE IF cur_code = long_delay_code
               THEN /\ time_accum' = time_accum + long_delay(cur_val)
                    /\ UNCHANGED rows
               ELSE IF IdxOutOfRange(code_idx(cur_code), codemap)
               THEN /\ rows' = Append(rows, <<i, time_accum, code_bank(cur_code),
                                              code_idx(cur_code), cur_val, "ERROR: Index out of bounds">>)
                    /\ UNCHANGED time_accum
               ELSE /\ rows' = IF describe(cur_reg, cur_val) # ""
                               THEN Append(rows, <<i, time_accum, code_bank(cur_code),
                                                   cur_reg, cur_val, describe(cur_reg, cur_val)>>)
                               ELSE rows
                    /\ UNCHANGED time_accum
    /\ UNCHANGED <<op, data, target_channel, short_delay_code, long_delay_code, codemap,
                   out_data, dropped_commands, written, out_file, reported>>
    /\ UNCHANGED <<calcVars, clsVars>>

\* The loop condition fails: the function returns.
dump_dro_end ==
    /\ op = "dump"
    /\ pc = "loop"
    /\ i >= Len(data)
    /\ pc' = "done"
    /\ result' = "ok"
    /\ UNCHANGED <<op, fileVars, dumpVars, calcVars, clsVars>>

NextDump ==
    \/ dump_dro_open
    \/ dump_dro_step
    \/ dump_dro_end

SpecDump == InitDumpRun /\ [][NextDump]_vars

---------------------------------------------------------------------------
(* get_channel_from_reg, applied to every bank and register                *)

InitClassify ==
    /\ op = "classify"
    /\ pc = "start"
    /\ result = "running"
    /\ data = <<>>
    /\ target_channel = 0
    /\ InitFile
    /\ InitDump
    /\ NoCalc
    /\ bank \in {0, 1}
    /\ reg \in Byte
    /\ ch = -2

classify ==
    /\ op = "classify"
    /\ pc = "start"
    /\ ch' = get_channel_from_reg(bank, reg)
    /\ pc' = "done"
    /\ result' = "ok"
    /\ UNCHANGED <<op, bank, reg, fileVars, dumpVars, calcVars>>

NextClassify == classify

SpecClassify == InitClassify /\ [][NextClassify]_vars

---------------------------------------------------------------------------
(* calc_shift                                                              *)

\* The semitone arguments drawn.
SemitoneChoices == {-24, -12, -2, 0, 1, 12, 24, 36}

\* The low frequency bytes drawn with a shift other than 0.
FLowChoices == {0, 1, 127, 226, 255}

\* 2 ** (semitones / 12.0) as a fraction <<n, d>>: exact for whole octaves,
\* and for the other shifts a dyadic fraction that gives the same
\* int(f * multiplier) as the float for every f in 0..1023.
multiplier(s) ==
    CASE s = -24 -> <<1, 4>>
      [] s = -12 -> <<1, 2>>
      [] s = -2 -> <<934175, 1048576>>
      [] s = 0 -> <<1, 1>>
      [] s = 1 -> <<1110927, 1048576>>
      [] s = 12 -> <<2, 1>>
      [] s = 24 -> <<4, 1>>
      [] s = 36 -> <<8, 1>>

\* int(current_f_num * multiplier): truncation of a non-negative product
scale(f, s) == (f * multiplier(s)[1]) \div multiplier(s)[2]

\* key_on = hex_b0 & 0x20
b0_key_on(b) == ((b \div 32) % 2) * 32

\* block = (hex_b0 & 0x1C) >> 2
b0_block(b) == (b \div 4) % 8

\* f_high = hex_b0 & 0x03
b0_f_high(b) == b % 4

\* current_f_num = (f_high << 8) | f_low
f_num(a, b) == b0_f_high(b) * 256 + a

\* calc <HexA0> <HexB0> 0 for every pair of bytes, and the other shifts for
\* a few low bytes and every combined byte.
InitCalc ==
    /\ op = "calc"
    /\ pc = "start"
    /\ result = "running"
    /\ data = <<>>
    /\ target_channel = 0
    /\ InitFile
    /\ InitDump
    /\ NoClassify
    /\ \/ semitones = 0 /\ hex_a0 \in Byte
       \/ semitones \in SemitoneChoices /\ hex_a0 \in FLowChoices
    /\ hex_b0 \in Byte
    /\ InitCalcLocals

\* The same, with the zero shift drawn for the few low bytes only.
InitCalcFew ==
    /\ op = "calc"
    /\ pc = "start"
    /\ result = "running"
    /\ data = <<>>
    /\ target_channel = 0
    /\ InitFile
    /\ InitDump
    /\ NoClassify
    /\ semitones \in SemitoneChoices
    /\ hex_a0 \in FLowChoices
    /\ hex_b0 \in Byte
    /\ InitCalcLocals

\* Steps 1 and 2: parse the two bytes, multiply.
calc_shift_parse ==
    /\ op = "calc"
    /\ pc = "start"
    /\ key_on' = b0_key_on(hex_b0)
    /\ new_f_num' = scale(f_num(hex_a0, hex_b0), semitones)
    /\ new_block' = b0_block(hex_b0)
    /\ pc' = "up"
    /\ UNCHANGED <<op, result, hex_a0, hex_b0, semitones, new_f_low, new_b0_val>>
    /\ UNCHANGED <<fileVars, dumpVars, clsVars>>

\* Mutant: the first loop does not clamp the block.
up_cond_no_clamp(f, b) == f >= 1024

\* while new_f_num >= 1024 and new_block < 7
up_cond(f, b) == f >= 1024 /\ b < 7

\* Mutant: the second loop stops one block early.
down_cond_stops_early(f, b) == f < 512 /\ b > 1

\* while new_f_num < 512 and new_block > 0
down_cond(f, b) == f < 512 /\ b > 0

\* A turn of the first loop.
calc_shift_up ==
    /\ op = "calc"
    /\ pc = "up"
    /\ up_cond(new_f_num, new_block)
    /\ new_f_num' = new_f_num \div 2
    /\ new_block' = new_block + 1
    /\ UNCHANGED <<op, pc, result, hex_a0, hex_b0, semitones, key_on, new_f_low, new_b0_val>>
    /\ UNCHANGED <<fileVars, dumpVars, clsVars>>

\* A turn of the second loop; the first one is over.
calc_shift_down ==
    /\ op = "calc"
    /\ \/ pc = "up" /\ ~up_cond(new_f_num, new_block)
       \/ pc = "down"
    /\ down_cond(new_f_num, new_block)
    /\ new_f_num' = new_f_num * 2
    /\ new_block' = new_block - 1
    /\ pc' = "down"
    /\ UNCHANGED <<op, result, hex_a0, hex_b0, semitones, key_on, new_f_low, new_b0_val>>
    /\ UNCHANGED <<fileVars, dumpVars, clsVars>>

\* new_f_low = new_f_num & 0xFF; new_f_high = (new_f_num >> 8) & 0x03
pack_f_low(f) == f % 256

\* new_b0_val = key_on | (new_block << 2) | new_f_high: the three fields share no bit
pack_b0(k, b, f) == k + (b * 4) + ((f \div 256) % 4)

\* Step 4, once both loops are over.
calc_shift_repack ==
    /\ op = "calc"
    /\ \/ pc = "up" /\ ~up_cond(new_f_num, new_block)
       \/ pc = "down"
    /\ ~down_cond(new_f_num, new_block)
    /\ new_f_low' = pack_f_low(new_f_num)
    /\ new_b0_val' = pack_b0(key_on, new_block, new_f_num)
    /\ pc' = "done"
    /\ result' = "ok"
    /\ UNCHANGED <<op, hex_a0, hex_b0, semitones, key_on, new_f_num, new_block>>
    /\ UNCHANGED <<fileVars, dumpVars, clsVars>>

NextCalc ==
    \/ calc_shift_parse
    \/ calc_shift_up
    \/ calc_shift_down
    \/ calc_shift_repack

SpecCalc == InitCalc /\ [][NextCalc]_vars

\* calc_shift runs to its end without waiting on anything: a step that can
\* be taken is taken.
SpecCalcFair == InitCalcFew /\ [][NextCalc]_vars /\ WF_vars(NextCalc)

---------------------------------------------------------------------------
(* What the claims speak of, stated over the input file alone.             *)

\* The offset the declared codemap ends at.
CodemapEnd(d) == 26 + d[26]

\* The number of whole 2-byte tokens after the codemap.
NumTokens(d) == IF Len(d) <= CodemapEnd(d) THEN 0 ELSE (Len(d) - CodemapEnd(d)) \div 2

TokCode(d, k) == d[CodemapEnd(d) + 2 * k + 1]

TokVal(d, k) == d[CodemapEnd(d) + 2 * k + 2]

TokIsDelay(d, k) == TokCode(d, k) = d[24] \/ TokCode(d, k) = d[25]

TokIdx(d, k) == TokCode(d, k) % 128

TokBank(d, k) == IF TokCode(d, k) >= 128 THEN 1 ELSE 0

\* A register write whose index is inside the codemap.
TokResolves(d, k) == ~TokIsDelay(d, k) /\ 26 + TokIdx(d, k) < CodemapEnd(d)

TokReg(d, k) == d[26 + TokIdx(d, k) + 1]

TokChannel(d, k) == get_channel_from_reg(TokBank(d, k), TokReg(d, k))

\* The header checks pass and all 26 header bytes are there.
HeaderPresent(d) ==
    /\ Len(d) >= 26
    /\ SubSeq(d, 1, 8) = Magic
    /\ d[9] = 2
    /\ d[10] = 0

\* The header and the whole codemap are there, and the stream is whole tokens.
WholeTokenFile(d) ==
    /\ HeaderPresent(d)
    /\ Len(d) >= CodemapEnd(d)
    /\ (Len(d) - CodemapEnd(d)) % 2 = 0

\* The stream ends with a single byte after its last whole token.
HasTrailingByte(d) ==
    /\ HeaderPresent(d)
    /\ Len(d) > CodemapEnd(d)
    /\ (Len(d) - CodemapEnd(d)) % 2 = 1

TokenIds(d) == 0..(NumTokens(d) - 1)

\* The tokens k.. that are not in dropped, concatenated in order.
RECURSIVE KeptFrom(_, _, _)
KeptFrom(d, k, dropped) ==
    IF k >= NumTokens(d) THEN <<>>
    ELSE (IF k \in dropped THEN <<>> ELSE <<TokCode(d, k), TokVal(d, k)>>)
         \o KeptFrom(d, k + 1, dropped)

\* The header, the codemap and the tokens not in dropped.
Filtered(d, dropped) == SubSeq(d, 1, CodemapEnd(d)) \o KeptFrom(d, 0, dropped)

RemoveDrops(d, k) == TokResolves(d, k) /\ TokChannel(d, k) = target_channel

RemoveDropped(d) == {k \in TokenIds(d) : RemoveDrops(d, k)}

IsolateKeeps(d, k) ==
    \/ TokIsDelay(d, k)
    \/ ~TokResolves(d, k)
    \/ TokReg(d, k) = 189
    \/ TokChannel(d, k) = target_channel
    \/ TokChannel(d, k) = Global

IsolateDropped(d) == {k \in TokenIds(d) : ~IsolateKeeps(d, k)}

\* C1: remove_channel on a whole-token file drops exactly the register
\* writes whose index is in range and whose channel is the target; the
\* output is the header, the codemap and every other token, unmodified and
\* in input order, and the count printed is the number of dropped tokens.
C1_RemoveDropsExactlyTarget ==
    (op = "remove" /\ pc = "done" /\ WholeTokenFile(data)) =>
        /\ result = "ok"
        /\ written
        /\ out_file = Filtered(data, RemoveDropped(data))
        /\ reported = Cardinality(RemoveDropped(data))

\* A remove run that dropped a token and kept another.
C1_Witness ==
    /\ op = "remove" /\ pc = "done" /\ WholeTokenFile(data)
    /\ reported = 1
    /\ NumTokens(data) = 2
    /\ Len(out_file) = Len(data) - 2

\* C2: isolate_channel on a whole-token file keeps every delay, every
\* out-of-range write, every write to register 0xBD and every write whose
\* channel is the target or Global, and drops exactly the writes of the
\* channels that are neither.
C2_IsolateKeepsTargetAndGlobal ==
    (op = "isolate" /\ pc = "done" /\ WholeTokenFile(data)) =>
        /\ result = "ok"
        /\ written
        /\ out_file = Filtered(data, IsolateDropped(data))
        /\ reported = Cardinality(IsolateDropped(data))
        /\ \A k \in TokenIds(data) :
              k \in IsolateDropped(data) <=>
                  /\ TokResolves(data, k)
                  /\ TokChannel(data, k) \notin {target_channel, Global}

\* An isolate run, with a target other than Global, that kept a write to
\* 0xBD and dropped a write of another channel.
C2_Witness ==
    /\ op = "isolate" /\ pc = "done" /\ WholeTokenFile(data)
    /\ target_channel # Global
    /\ reported = 1
    /\ \E k \in TokenIds(data) : TokResolves(data, k) /\ TokReg(data, k) = 189

\* No token of the file is a write of the target channel.
NoTokenMatches(d) == \A k \in TokenIds(d) : ~RemoveDrops(d, k)

C5_TrailingByteIgnored ==
    (op \in {"remove", "isolate"} /\ pc = "done" /\ HasTrailingByte(data)) =>
        /\ result = "ok"
        /\ written
        /\ out_file = Filtered(data, IF op = "remove" THEN RemoveDropped(data)
                                      ELSE IsolateDropped(data))

\* C6: a file with the magic and version 2 that is shorter than the end of
\* its declared codemap is refused, and no output file is written.
C6_TruncatedRefused ==
    (/\ op \in {"remove", "isolate"} /\ pc = "done"
     /\ Len(data) >= 10 /\ SubSeq(data, 1, 8) = Magic /\ data[9] = 2 /\ data[10] = 0
     /\ (Len(data) < 26 \/ Len(data) < CodemapEnd(data))) =>
        (result # "ok" /\ ~written)

\* The file of the scenario: delay opcodes 0x00 and 0x01, codemap [0xB0],
\* stream 00 30 00 09.
ScenarioFile == Header(68, 2, 0, 0, 1, 1) \o <<176>> \o <<0, 48, 0, 9>>

\* C7 as stated: remove of channel 0 drops the token 00 30 and leaves the
\* header, the codemap and the delay token; the count printed is 1.
C7_ScenarioDropsWrite ==
    (op = "remove" /\ pc = "done" /\ target_channel = 0 /\ data = ScenarioFile) =>
        /\ out_file = SubSeq(ScenarioFile, 1, 27) \o <<0, 9>>
        /\ reported = 1

\* C7 amended: the first byte of 00 30 is the short-delay opcode, so the
\* token is a delay; nothing is dropped, the output is the input and the
\* count printed is 0.
C7_ScenarioKeepsAll ==
    (op = "remove" /\ pc = "done" /\ target_channel = 0 /\ data = ScenarioFile) =>
        /\ written
        /\ out_file = ScenarioFile
        /\ reported = 0

\* The scenario has run to its end.
C7_Witness ==
    /\ op = "remove" /\ pc = "done" /\ target_channel = 0 /\ data = ScenarioFile
    /\ written

\* The spec's table of the operator offsets 0x00..0x15; -1 marks a gap.
OffsetTable ==
    [o \in 0..21 |->
        CASE o \in {0, 3} -> 0
          [] o \in {1, 4} -> 1
          [] o \in {2, 5} -> 2
          [] o \in {8, 11} -> 3
          [] o \in {9, 12} -> 4
          [] o \in {10, 13} -> 5
          [] o \in {16, 19} -> 6
          [] o \in {17, 20} -> 7
          [] o \in {18, 21} -> 8
          [] OTHER -> -1]

PerChannelRegs == (160..168) \cup (176..184) \cup (192..200)

OperatorRegs == (32..53) \cup (64..85) \cup (96..117) \cup (128..149) \cup (224..245)

\* C8: get_channel_from_reg gives a result for every bank and register:
\* base + (reg & 0x0F) in the three per-channel ranges, base + table[reg mod
\* 0x20] in the five operator ranges where the table holds a channel, and
\* Global in the gaps, for 0xBD and for every other register; a channel of
\* bank 0 lies in 0..8, one of bank 1 in 9..17.
C8_ClassifyTable ==
    (op = "classify" /\ pc = "done") =>
        LET base == IF bank = 0 THEN 0 ELSE 9
        IN /\ ch \in {Global} \cup (0..17)
           /\ reg \in PerChannelRegs => ch = base + (reg % 16)
           /\ (reg \in OperatorRegs /\ OffsetTable[reg % 32] # -1) =>
                  ch = base + OffsetTable[reg % 32]
           /\ (reg \in OperatorRegs /\ (reg % 32) \in {6, 7, 14, 15}) => ch = Global
           /\ reg = 189 => ch = Global
           /\ reg \notin (PerChannelRegs \cup OperatorRegs) => ch = Global
           /\ ch # Global => ch \in (IF bank = 0 THEN 0..8 ELSE 9..17)

\* Register 0x8B of bank 1: offset 0x0B, channel 9 + 3.
C8_Witness ==
    /\ op = "classify" /\ pc = "done"
    /\ bank = 1 /\ reg = 139
    /\ ch = 12

\* The whole tokens that lie before offset n.
TokensBefore(d, n) == IF n <= CodemapEnd(d) THEN 0 ELSE (n - CodemapEnd(d)) \div 2

\* The duration of token k: the short-delay opcode is compared first.
TokDuration(d, k) ==
    IF TokCode(d, k) = d[24] THEN TokVal(d, k) + 1
    ELSE IF TokCode(d, k) = d[25] THEN (TokVal(d, k) + 1) * 256
    ELSE 0

\* The sum of the durations of the tokens 0..n-1.
RECURSIVE DelaySum(_, _)
DelaySum(d, n) == IF n = 0 THEN 0 ELSE DelaySum(d, n - 1) + TokDuration(d, n - 1)

\* A turn of the dumper's loop that decodes a whole token.
DumpDecodes == op = "dump" /\ pc = "loop" /\ i + 1 < Len(data)

\* C9 as stated: every decoded token whose first byte is the short-delay
\* opcode adds val+1 to the accumulated time, every one whose first byte is
\* the long-delay opcode adds (val+1)*256, and a register write adds nothing.
C9_DelayRulesAsStated ==
    [][DumpDecodes =>
        /\ data[i + 1] = data[24] => time_accum' = time_accum + (data[i + 2] + 1)
        /\ data[i + 1] = data[25] => time_accum' = time_accum + ((data[i + 2] + 1) * 256)
        /\ data[i + 1] \notin {data[24], data[25]} => time_accum' = time_accum]_vars

\* C9 amended: the long-delay rule holds for the tokens whose first byte is
\* the long-delay opcode and not also the short-delay opcode.  At every point
\* of the pass the accumulated time is the sum of the durations of the tokens
\* decoded so far, and the time of each printed row is the sum over the
\* tokens before the row's own.
C9_TimeIsSumOfDelays ==
    (op = "dump" /\ pc \in {"loop", "done"} /\ result \in {"running", "ok"}) =>
        /\ time_accum = DelaySum(data, TokensBefore(data, i))
        /\ \A r \in 1..Len(rows) :
              /\ ~TokIsDelay(data, TokensBefore(data, rows[r][1]))
              /\ rows[r][2] = DelaySum(data, TokensBefore(data, rows[r][1]))

\* A pass that met a long delay, with opcodes that differ, and then
\* printed a row at the time the delay had added.
C9_Witness ==
    /\ op = "dump" /\ pc = "done"
    /\ HeaderPresent(data)
    /\ data[24] # data[25]
    /\ NumTokens(data) = 2
    /\ TokCode(data, 0) = data[25]
    /\ Len(rows) = 1
    /\ rows[1][2] = (TokVal(data, 0) + 1) * 256
    /\ time_accum = (TokVal(data, 0) + 1) * 256

\* C4 as stated: a shift of 0 semitones returns the low byte, the key-on
\* bit, the block and the high frequency bits of its input.
C4_ZeroShiftIsIdentity ==
    (op = "calc" /\ pc = "done" /\ semitones = 0) =>
        /\ new_f_low = hex_a0
        /\ new_b0_val % 64 = hex_b0 % 64

RECURSIVE Pow2(_)
Pow2(n) == IF n = 0 THEN 1 ELSE 2 * Pow2(n - 1)

InFNum == (hex_b0 % 4) * 256 + hex_a0

InBlock == (hex_b0 \div 4) % 8

OutFNum == (new_b0_val % 4) * 256 + new_f_low

OutBlock == (new_b0_val \div 4) % 8

\* C4 amended: a shift of 0 semitones keeps the key-on bit and the pitch
\* (frequency number times 2^block); it returns the frequency number and the
\* block unchanged exactly when the frequency number is at least 512 or the
\* block is 0, and otherwise the normalized pair: the frequency number
\* doubled and the block decremented until one of the two holds.
C4_ZeroShiftNormalizes ==
    (op = "calc" /\ pc = "done" /\ semitones = 0) =>
        /\ new_b0_val \div 32 = (hex_b0 \div 32) % 2
        /\ OutFNum * Pow2(OutBlock) = InFNum * Pow2(InBlock)
        /\ (OutFNum >= 512 \/ OutBlock = 0)
        /\ (InFNum >= 512 \/ InBlock = 0) <=> (OutFNum = InFNum /\ OutBlock = InBlock)

\* A zero shift of a canonical input, returned as it was.
C4_Witness ==
    /\ op = "calc" /\ pc = "done" /\ semitones = 0
    /\ hex_a0 = 226 /\ hex_b0 = 51
    /\ new_f_low = 226 /\ new_b0_val = 51

\* The loops' measure: what is left of the run, counted in steps.
CalcMeasure ==
    CASE pc = "start" -> 17
      [] pc = "up" -> 9 + (7 - new_block)
      [] pc = "down" -> 1 + new_block
      [] OTHER -> 0

\* C10: the two loops end; on exit the block is in 0..7 and the frequency
\* number in 512..1023, unless it is below 512 with block 0 or at least 1024
\* with block 7; the repacked byte carries the key-on bit of the input.
C10_NormalizeTerminates ==
    /\ [](pc = "done" =>
            /\ new_block \in 0..7
            /\ new_f_num >= 0
            /\ \/ new_f_num \in 512..1023
               \/ new_f_num < 512 /\ new_block = 0
               \/ new_f_num >= 1024 /\ new_block = 7
            /\ (new_b0_val \div 32) % 2 = (hex_b0 \div 32) % 2)
    /\ [][CalcMeasure' < CalcMeasure]_vars
    /\ <>(pc = "done")

\* A run whose first loop ran out of headroom at block 7.
C10_Witness ==
    /\ op = "calc" /\ pc = "done"
    /\ semitones = 36
    /\ new_block = 7
    /\ new_f_num >= 1024

===========================================================================
